---------------------------- MODULE Spec2Model ----------------------------
(***************************************************************************)
(* Model of the DTM test bot (src/main.py, src/database.py).               *)
(*                                                                         *)
(* The bot is built with Application.builder().token(token).build()        *)
(* (main.py:465), i.e. without concurrent updates: one update is handled   *)
(* to completion before the next one starts.  Every handler is therefore   *)
(* one atomic action of the model.                                         *)
(*                                                                         *)
(* Python dicts (active_tests, a session, its answers, a DB table keyed by *)
(* primary key) are functions whose DOMAIN is the set of keys present.     *)
(* DB tables with AUTOINCREMENT ids and no deletes are sequences: the row  *)
(* at position i has id i.                                                 *)
(***************************************************************************)
EXTENDS Integers, Sequences, FiniteSets, TLC

VARIABLES
    active_tests,     \* DTMTestBot.active_tests: user_id -> session dict
    db_users,         \* table users: user_id -> row
    db_questions,     \* table questions: sequence of rows, id = position
    db_test_results,  \* table test_results: sequence of rows, id = position
    db_test_answers,  \* table test_answers: sequence of rows
    now,              \* the instant last read off the clock (by
                      \* datetime.now() or CURRENT_TIMESTAMP), in ticks of
                      \* 1/TicksPerSecond of a second
    out,              \* what the last handled update answered to its user
    nsessions,        \* history: number of sessions created so far
    ended,            \* history: how sessions were cancelled, replaced, read
    inbox,            \* updates received and not yet given to a handler
    handling,         \* the handlers that have started and not yet returned
    selections,       \* history: the language each user selected last, in
                      \* the runs that follow the selections (MenuSpec)
    db_admin_users,   \* table admin_users: the set of its user ids
    handled           \* the number of updates handled so far

vars == <<active_tests, db_users, db_questions, db_test_results,
          db_test_answers, now, out, nsessions, ended, inbox, handling,
          selections, db_admin_users, handled>>

---------------------------------------------------------------------------
(* Bounds of the model. *)

\* The latest instant, in ticks, that is read off the clock in a run.
MaxTime == 2
\* The ticks of the clock in a second: how finely the instants within a
\* second are told apart (datetime.now() tells microseconds apart).
TicksPerSecond == 2
\* The most questions of a test whose scoring or flow is run on its own;
\* the draw of such a test comes in every order.
MaxDrawn == 3
\* Largest question index an inbound Answer carries.
MaxIndex == 1

\* The number of updates handled in a run.
MaxHandled == 3

\* The number of updates of a run in which updates wait for their handler.
MaxUpdates == 4
\* Largest count asked of a draw made on its own.
MaxCount == 2
\* The number of questions added to the store in a run.
MaxAdded == 1
\* The number of saves in a run of the result list or of the save on its
\* own.
MaxResults == 3
\* Largest limit asked of the result list, beside the bot's own.
MaxLimit == 2
\* Longest transcript saved in a run of the save on its own.
MaxTranscript == 2
\* show_results: get_user_results(user_id, limit=5).
ResultsLimit == 5

Users == {1, 2}

\* config.py:24-31 lists six subjects; two are enough here, one of them
\* without any question in the store.
Subjects == {"mathematics", "history"}

\* Letters an Answer may carry: the buttons send A..D (main.py:180-184); "E"
\* stands for any other string.
AnswerLetters == {"B", "E"}

\* Indices an Answer may carry: int(parts[2]) is any integer.  0..MaxIndex
\* covers the indices of a two-question draw (and one past the end of a
\* one-question draw), -2 a negative one.
Indices == {0 - 2} \cup (0..MaxIndex)

\* The LIMIT passed by start_test to get_random_questions.
QuestionsPerDraw == 10

\* config.py: SUPER_ADMIN_ID, without the environment variable.
SUPER_ADMIN_ID == 123456789

---------------------------------------------------------------------------
(* Python helpers. *)

EmptyDict == [x \in {} |-> x]

DictSet(d, k, v) == [x \in (DOMAIN d) \cup {k} |-> IF x = k THEN v ELSE d[x]]

DictDel(d, k) == [x \in (DOMAIN d) \ {k} |-> d[x]]

\* dict.get(k, default)
DictGet(d, k, default) == IF k \in DOMAIN d THEN d[k] ELSE default

\* str.lower() and str.upper() on the strings the model uses.
Lower(s) ==
    CASE s = "A" -> "a" [] s = "B" -> "b" [] s = "C" -> "c"
      [] s = "D" -> "d" [] s = "E" -> "e"
      [] OTHER -> s

Upper(s) ==
    CASE s = "a" -> "A" [] s = "b" -> "B" [] s = "c" -> "C"
      [] s = "d" -> "D" [] s = "e" -> "E"
      [] OTHER -> s

Min(a, b) == IF a <= b THEN a ELSE b

\* round(x, 1) for x = c / t * 100, as a number of tenths: the nearest tenth,
\* a tie going to the even one.  (For t <= 10 the double c / t * 100 is within
\* 1e-13 of the exact quotient and no exact quotient is closer than 0.005 to
\* a tie, so rounding the double and rounding the quotient agree.)
RoundTenths(c, t) ==
    LET q == (1000 * c) \div t
        r == (1000 * c) % t
    IN  IF 2 * r < t THEN q
        ELSE IF 2 * r > t THEN q + 1
        ELSE IF q % 2 = 0 THEN q ELSE q + 1

---------------------------------------------------------------------------
(* The database (src/database.py). *)

\* One row of table questions.  The texts are stood for by the row id.
QuestionRow(id, subject, language, correct) ==
    [id |-> id, subject |-> subject, language |-> language,
     question_text |-> <<"text", id>>,
     option_a |-> <<"a", id>>, option_b |-> <<"b", id>>,
     option_c |-> <<"c", id>>, option_d |-> <<"d", id>>,
     correct_answer |-> correct]

\* The correct letters of the ten mathematics/uz sample questions.
SampleCorrect == <<"b", "b", "c", "c", "b", "b", "b", "b", "c", "b">>

\* The store the runs start from: two mathematics/uz questions and one
\* mathematics/ru question (a database file that already held questions is
\* left as it is by _insert_sample_questions).
InitialQuestions ==
    << QuestionRow(1, "mathematics", "uz", "b"),
       QuestionRow(2, "mathematics", "uz", "b"),
       QuestionRow(3, "mathematics", "ru", "b") >>

\* How a call of a DatabaseManager method goes.  Every method opens its
\* connection before its try block (conn = self.get_connection()) and runs
\* its statements inside it:
\*   "ok"     nothing raises;
\*   "error"  a statement or the commit raises: the except clause logs the
\*            error and the method returns its fallback value, nothing
\*            committed;
\*   "raise"  sqlite3.connect raises: the method raises OperationalError to
\*            its caller, nothing read or written.
DbOutcomes == {"ok", "error", "raise"}

\* The outcomes of a database call a handler makes only if `called`.
Calls(called) == IF called THEN DbOutcomes ELSE {"ok"}

\* The same, for a call that returns result when nothing raises and
\* fallback when a statement does: the outcomes that differ for the caller.
\* A statement that raises is left out where the method's fallback is what
\* the statement would have returned.
Outcomes(called, result, fallback) ==
    IF ~called THEN {"ok"}
    ELSE IF result = fallback THEN {"ok", "raise"}
    ELSE DbOutcomes

\* What a method that raises gives its caller.
OperationalError == [raises |-> "OperationalError"]

\* get_user_language: the stored language, 'uz' without a row or on error.
get_user_language(users, u, db) ==
    IF db = "raise" THEN OperationalError
    ELSE IF db = "ok" /\ u \in DOMAIN users THEN users[u].language ELSE "uz"

\* register_user: INSERT OR IGNORE with the column defaults language 'uz'
\* and is_admin 0.  The result: the table.
register_user(users, u, db) ==
    IF db = "raise" THEN OperationalError
    ELSE IF db = "ok" /\ u \notin DOMAIN users
    THEN DictSet(users, u, [language |-> "uz", is_admin |-> FALSE])
    ELSE users

\* set_user_language: UPDATE ... WHERE user_id = ?, nothing without a row.
\* The result: the table.
set_user_language(users, u, lang, db) ==
    IF db = "raise" THEN OperationalError
    ELSE IF db = "ok" /\ u \in DOMAIN users
    THEN DictSet(users, u, [users[u] EXCEPT !.language = lang])
    ELSE users

\* add_admin: INSERT OR IGNORE INTO admin_users and UPDATE users SET
\* is_admin = 1 WHERE user_id = ?, committed together; True unless a
\* statement raises.  The result: the two tables and the returned value.
add_admin(admins, users, u, db) ==
    IF db = "raise" THEN OperationalError
    ELSE IF db = "error" THEN [admins |-> admins, users |-> users, ok |-> FALSE]
    ELSE [admins |-> admins \cup {u},
          users |-> IF u \in DOMAIN users
                    THEN DictSet(users, u, [users[u] EXCEPT !.is_admin = TRUE])
                    ELSE users,
          ok |-> TRUE]

\* DatabaseManager.is_admin: SELECT is_admin FROM users; False without a
\* row or on error.
db_is_admin(users, u, db) ==
    IF db = "raise" THEN OperationalError
    ELSE IF db = "ok" /\ u \in DOMAIN users THEN users[u].is_admin ELSE FALSE

\* AdminManager.is_admin: the super admin, or an admin by the database
\* ("or" does not call the database for the super admin).
is_admin(users, u, db) ==
    IF u = SUPER_ADMIN_ID THEN TRUE ELSE db_is_admin(users, u, db)

\* All orderings of the rows with ids in S.
RECURSIVE Orderings(_, _)
Orderings(rows, S) ==
    IF S = {} THEN {<<>>}
    ELSE UNION {{<<rows[i]>> \o rest : rest \in Orderings(rows, S \ {i})} : i \in S}

\* get_random_questions: SELECT ... WHERE subject, language ORDER BY RANDOM()
\* LIMIT count; the set of results it may return.  On error: [].
get_random_questions(rows, subject, language, count, db) ==
    IF db = "raise" THEN {OperationalError}
    ELSE IF db = "error" THEN {<<>>}
    ELSE LET match == {i \in DOMAIN rows :
                         rows[i].subject = subject /\ rows[i].language = language}
             k == Min(count, Cardinality(match))
         IN  UNION {Orderings(rows, S) : S \in {T \in SUBSET match : Cardinality(T) = k}}

\* add_question: INSERT INTO questions; on error the store is as it was
\* (and False is returned).  The result: the table.
add_question(rows, subject, language, correct_answer, db) ==
    IF db = "raise" THEN OperationalError
    ELSE IF db = "ok"
    THEN Append(rows, QuestionRow(Len(rows) + 1, subject, language, correct_answer))
    ELSE rows

\* save_test_result: one summary row and one child row per transcript entry,
\* committed together; on error nothing is committed and 0 is returned.
\* The result: the two tables and the returned id.
save_test_result(results, answers, row, test_answers, db) ==
    IF db = "raise" THEN OperationalError
    ELSE IF db = "error"
    THEN [results |-> results, answers |-> answers, id |-> 0]
    ELSE LET id == Len(results) + 1
         IN  [results |-> Append(results, [row EXCEPT !.id = id]),
              answers |-> answers \o
                  [i \in 1..Len(test_answers) |->
                      [test_result_id |-> id,
                       question_text |-> test_answers[i].question,
                       user_answer |-> test_answers[i].user_answer,
                       correct_answer |-> test_answers[i].correct_answer,
                       is_correct |-> IF test_answers[i].is_correct THEN 1 ELSE 0,
                       option_a |-> test_answers[i].option_a,
                       option_b |-> test_answers[i].option_b,
                       option_c |-> test_answers[i].option_c,
                       option_d |-> test_answers[i].option_d]],
              id |-> id]

\* A slip: a connection in autocommit mode (isolation_level=None), every
\* statement's rows are kept.
Closed_autocommit(before, written, committed) == written

\* conn.close() at the end of save_test_result: the tables hold what the
\* connection wrote if it has committed, and what they held when it was
\* opened if not (sqlite3 opens a transaction at the first INSERT, and
\* closing a connection discards the open transaction).
Closed(before, written, committed) == IF committed THEN written ELSE before

\* save_test_result statement by statement: the INSERT of the summary row,
\* one INSERT per transcript entry, conn.commit().  The first `done` of
\* them succeed and the next one raises; done = Len(test_answers) + 2 is the
\* save that succeeds.  The result: the two tables and the returned id.
save_test_result_upto(results, answers, row, test_answers, done) ==
    LET n == Len(test_answers)
        id == Len(results) + 1
        committed == done >= n + 2
        children == IF done - 1 > n THEN n ELSE IF done < 1 THEN 0 ELSE done - 1
        all == save_test_result(results, answers, row, test_answers, "ok")
        before == [results |-> results, answers |-> answers]
        written ==
            [results |-> IF done >= 1 THEN all.results ELSE results,
             answers |-> SubSeq(all.answers, 1, Len(answers) + children)]
        closed == Closed(before, written, committed)
    IN  [results |-> closed.results, answers |-> closed.answers,
         id |-> IF committed THEN id ELSE 0]

\* get_user_results: SELECT * FROM test_results WHERE user_id = ?
\* ORDER BY test_date DESC LIMIT ?.  test_date is CURRENT_TIMESTAMP, in whole
\* seconds; rows of one second come out in the order of their ids, lowest
\* first, which is the order SQLite's sort leaves them in.  On error: [].
get_user_results(results, user_id, limit, db) ==
    LET mine == {i \in DOMAIN results : results[i].user_id = user_id}
        Before(i, j) == \/ results[i].test_date > results[j].test_date
                        \/ /\ results[i].test_date = results[j].test_date
                           /\ results[i].id < results[j].id
        Rank(j) == Cardinality({i \in mine : Before(i, j)}) + 1
    IN  IF db = "raise" THEN OperationalError
        ELSE IF db = "error" THEN <<>>
        ELSE [k \in 1..Min(limit, Cardinality(mine)) |->
                 results[CHOOSE j \in mine : Rank(j) = k]]

---------------------------------------------------------------------------
(* The bot (src/main.py). *)

\* What a handler answered: the user, the handler, the kind of message and
\* its contents.
Reply(u, op, kind, data) == [user |-> u, op |-> op, kind |-> kind, data |-> data]

\* The handler raises the OperationalError of a database call: nothing is
\* sent, the exception goes to the application.
Raised(u, op) == out' = Reply(u, op, "error", "OperationalError")

\* seq[i] of Python for a list: i counts from 0, a negative i from the end.
\* PyInRange tells whether the access raises IndexError.
PyInRange(seq, i) == (0 - Len(seq)) <= i /\ i < Len(seq)

PyIndex(seq, i) == IF i >= 0 THEN seq[i + 1] ELSE seq[Len(seq) + i + 1]

\* A slip: an index without an answer passes as correct.
IsCorrect_emptyPasses(user_answer, correct_answer) ==
    user_answer = "" \/ Lower(user_answer) = Lower(correct_answer)

\* A slip: the letters compared as they are stored.
IsCorrect_caseSensitive(user_answer, correct_answer) ==
    user_answer = correct_answer

\* finish_test: is_correct = user_answer.lower() == correct_answer.lower().
IsCorrect(user_answer, correct_answer) ==
    Lower(user_answer) = Lower(correct_answer)

\* A slip: the submitted answer is recorded as it was sent, not uppercased.
TranscriptEntry_rawAnswer(question, answers, i) ==
    LET user_answer == DictGet(answers, i, "")
    IN  [question |-> question.question_text,
         user_answer |-> user_answer,
         correct_answer |-> Upper(question.correct_answer),
         is_correct |-> IsCorrect(user_answer, question.correct_answer),
         option_a |-> question.option_a,
         option_b |-> question.option_b,
         option_c |-> question.option_c,
         option_d |-> question.option_d]

\* finish_test, the body of the loop over enumerate(questions): the
\* transcript entry of the question at index i.
TranscriptEntry(question, answers, i) ==
    LET user_answer == DictGet(answers, i, "")
        is_correct == IsCorrect(user_answer, question.correct_answer)
    IN  [question |-> question.question_text,
         user_answer |-> Upper(user_answer),
         correct_answer |-> Upper(question.correct_answer),
         is_correct |-> is_correct,
         option_a |-> question.option_a,
         option_b |-> question.option_b,
         option_c |-> question.option_c,
         option_d |-> question.option_d]

\* finish_test: test_answers after the loop.
BuildTranscript(questions, answers) ==
    [i \in 1..Len(questions) |-> TranscriptEntry(questions[i], answers, i - 1)]

\* finish_test: correct_count after the loop.
CorrectCount(questions, answers) ==
    Cardinality({i \in 1..Len(questions) :
                    TranscriptEntry(questions[i], answers, i - 1).is_correct})

\* A slip: the wrong answers counted among the answers given only.
WrongCount_answeredOnly(questions, answers) ==
    Cardinality({i \in 1..Len(questions) :
                    /\ (i - 1) \in DOMAIN answers
                    /\ ~TranscriptEntry(questions[i], answers, i - 1).is_correct})

\* finish_test: wrong_count = total_questions - correct_count.
WrongCount(questions, answers) ==
    Len(questions) - CorrectCount(questions, answers)

\* A slip: the percentage cut to one decimal instead of rounded.
Percentage_truncated(correct_count, total_questions) ==
    (1000 * correct_count) \div total_questions

\* finish_test: percentage = round((correct_count / total_questions) * 100, 1),
\* in tenths of a percent.
Percentage(correct_count, total_questions) ==
    RoundTenths(correct_count, total_questions)

\* finish_test: test_session['test_answers'] = test_answers and
\* test_session['test_result_id'] = test_result_id.
StoreTranscript(test_session, test_answers, test_result_id) ==
    DictSet(DictSet(test_session, "test_answers", test_answers),
            "test_result_id", test_result_id)

\* A slip: the questions of the session's subject are read from the store
\* again.
SessionQuestions_fromStore(test_session) ==
    LET language == test_session.questions[1].language
        ids == {i \in DOMAIN db_questions :
                   /\ db_questions[i].subject = test_session.subject
                   /\ db_questions[i].language = language}
    IN  SelectSeq(db_questions, LAMBDA row : row.id \in ids)

\* finish_test, show_question: questions = test_session['questions'], the
\* list made by start_test.
SessionQuestions(test_session) == test_session.questions

\* CURRENT_TIMESTAMP at instant t: the time in whole seconds.
CURRENT_TIMESTAMP(t) == t \div TicksPerSecond

\* finish_test: int((end_time - test_session['start_time']).total_seconds()),
\* the seconds of the difference with their fraction cut off: int() rounds
\* towards zero, also when end_time is before start_time.
Duration(start_time, end_time) ==
    IF end_time >= start_time
    THEN (end_time - start_time) \div TicksPerSecond
    ELSE 0 - ((start_time - end_time) \div TicksPerSecond)

\* The instants a read of the clock may give, whatever the read before it
\* gave: datetime.now() is the local time of the host and CURRENT_TIMESTAMP
\* the UTC time of SQLite, and either clock may have been set forward or
\* back (by hand, by a time server, at the end of summer time) since it
\* was last read.
Instants == 0..MaxTime

\* finish_test(update, context) for user u, with the registry being `at`
\* when it is called; dblang and dbsave are the outcomes of its calls of
\* get_user_language and save_test_result; clock is the instant last read
\* off the clock.  The clock is read twice, by datetime.now() for end_time
\* and by the CURRENT_TIMESTAMP of the INSERT.
finish_test(u, op, at, clock, dblang, dbsave) ==
    IF dblang = "raise"
    THEN \* get_user_language raises before the registry is looked at
         /\ active_tests' = at
         /\ Raised(u, op)
         /\ now' = clock
         /\ UNCHANGED <<db_test_results, db_test_answers>>
    ELSE IF u \notin DOMAIN at
    THEN /\ active_tests' = at
         /\ out' = Reply(u, op, "none", <<>>)
         /\ now' = clock
         /\ UNCHANGED <<db_test_results, db_test_answers>>
    ELSE LET test_session == at[u]
             questions == SessionQuestions(test_session)
             answers == test_session.answers
             total_questions == Len(questions)
             test_answers == BuildTranscript(questions, answers)
             correct_count == CorrectCount(questions, answers)
             wrong_count == WrongCount(questions, answers)
             percentage == Percentage(correct_count, total_questions)
             row == [id |-> 0, user_id |-> u, subject |-> test_session.subject,
                     correct_answers |-> correct_count,
                     total_questions |-> total_questions,
                     percentage |-> percentage, duration |-> 0,
                     test_date |-> 0, session |-> test_session.sid]
         IN  IF total_questions = 0
             THEN \* correct_count / total_questions raises ZeroDivisionError
                  /\ active_tests' = at
                  /\ out' = Reply(u, op, "error", "ZeroDivisionError")
                  /\ now' = clock
                  /\ UNCHANGED <<db_test_results, db_test_answers>>
             ELSE IF dbsave = "raise"
             THEN \* save_test_result raises: no transcript is stored
                  /\ active_tests' = at
                  /\ Raised(u, op)
                  /\ now' = clock
                  /\ UNCHANGED <<db_test_results, db_test_answers>>
             ELSE
             \E end_time \in Instants :
             \E inserted \in (IF dbsave = "ok" THEN Instants
                                                   ELSE {end_time}) :
             LET duration == Duration(test_session.start_time, end_time)
                 dated == [row EXCEPT !.duration = duration,
                                      !.test_date = CURRENT_TIMESTAMP(inserted)]
                 saved == save_test_result(db_test_results, db_test_answers,
                                           dated, test_answers, dbsave)
             IN
             /\ now' = inserted
             /\ db_test_results' = saved.results
             /\ db_test_answers' = saved.answers
             /\ active_tests' = DictSet(at, u,
                    StoreTranscript(test_session, test_answers, saved.id))
             /\ out' = Reply(u, op, "result",
                    [correct_count |-> correct_count, wrong_count |-> wrong_count,
                     total_questions |-> total_questions,
                     percentage |-> percentage, duration |-> duration,
                     test_result_id |-> saved.id])

\* A slip: the test ends one question early.
AtEnd_early(current_q_idx, questions) == current_q_idx >= Len(questions) - 1

\* show_question: "if current_q_idx >= len(questions)".
AtEnd(current_q_idx, questions) == current_q_idx >= Len(questions)

\* show_question(update, context) for user u, with the registry being `at`;
\* clock is the instant last read off the clock, dblang the outcome of its
\* get_user_language, dbfin and dbsave those of the calls of the finish_test
\* it may run.
show_question(u, op, at, clock, dblang, dbfin, dbsave) ==
    IF dblang = "raise"
    THEN \* get_user_language raises before the registry is looked at
         /\ active_tests' = at
         /\ Raised(u, op)
         /\ now' = clock
         /\ UNCHANGED <<db_test_results, db_test_answers>>
    ELSE IF u \notin DOMAIN at
    THEN /\ active_tests' = at
         /\ out' = Reply(u, op, "test_not_found", <<>>)
         /\ now' = clock
         /\ UNCHANGED <<db_test_results, db_test_answers>>
    ELSE LET test_session == at[u]
             current_q_idx == test_session.current_question
             questions == SessionQuestions(test_session)
         IN  IF AtEnd(current_q_idx, questions)
             THEN finish_test(u, op, at, clock, dbfin, dbsave)
             ELSE /\ active_tests' = at
                  /\ UNCHANGED <<db_test_results, db_test_answers>>
                  /\ now' = clock
                  /\ out' = IF PyInRange(questions, current_q_idx)
                            THEN Reply(u, op, "question",
                                   [index |-> current_q_idx,
                                    question |-> PyIndex(questions, current_q_idx).question_text,
                                    total_questions |-> Len(questions)])
                            ELSE Reply(u, op, "error", "IndexError")

\* The number up to which the updates handled are counted.
MaxCounted == IF MaxHandled > MaxUpdates THEN MaxHandled ELSE MaxUpdates

\* One more update is handled.
Counted == handled' = IF handled < MaxCounted THEN handled + 1 ELSE handled

\* One more update is handled, by a handler that reads the clock once at
\* most: the time of the step is the time the clock shows.
Handled == Counted /\ now' = now

\* load_translations: the languages whose texts are loaded.
Translations == {"uz", "ru", "en"}

\* get_translation: the language of the texts it returns, which are those
\* of language if they are loaded and those of "uz" if not.
get_translation(language) ==
    IF language \in Translations THEN language ELSE "uz"

\* show_main_menu: the menu in the texts that get_translation returns for
\* lang, the reply carrying their language; AdminManager.is_admin is asked
\* for the admin button.
show_main_menu(u, op, lang, users, dbadmin) ==
    out' = IF u # SUPER_ADMIN_ID /\ dbadmin = "raise"
           THEN Reply(u, op, "error", "OperationalError")
           ELSE Reply(u, op, "main_menu", get_translation(lang))

\* A session is in progress until finish_test has stored its transcript.
InProgress(test_session) == "test_answers" \notin DOMAIN test_session

\* History: handler `how` was run on the session registered for u.
Ended(at, u, how) ==
    [sid |-> at[u].sid, user_id |-> u, how |-> how,
     in_progress |-> InProgress(at[u])]

\* start: the /start command.
start(u) ==
    /\ Handled
    /\ \E dbreg \in Outcomes(TRUE, register_user(db_users, u, "ok"),
              register_user(db_users, u, "error")) :
       \E dblang \in Outcomes(dbreg # "raise",
              get_user_language(register_user(db_users, u, dbreg), u, "ok"),
              get_user_language(register_user(db_users, u, dbreg), u, "error")) :
       \E dbadmin \in Outcomes(/\ dbreg # "raise" /\ dblang # "raise"
                                /\ u # SUPER_ADMIN_ID,
              is_admin(register_user(db_users, u, dbreg), u, "ok"),
              is_admin(register_user(db_users, u, dbreg), u, "error")) :
          IF dbreg = "raise"
          THEN Raised(u, "start") /\ db_users' = db_users
          ELSE /\ db_users' = register_user(db_users, u, dbreg)
               /\ IF dblang = "raise"
                  THEN Raised(u, "start")
                  ELSE LET user_lang == get_user_language(db_users', u, dblang)
                       IN  IF user_lang = ""
                           THEN out' = Reply(u, "start", "language_selection", <<>>)
                           ELSE show_main_menu(u, "start", user_lang, db_users', dbadmin)
    /\ UNCHANGED <<active_tests, db_questions, db_test_results,
                   db_test_answers, nsessions, ended>>

\* callback_handler, data = "lang_<lang>".
select_language(u, lang) ==
    /\ Handled
    /\ \E dbset \in Outcomes(TRUE,
              set_user_language(db_users, u, lang, "ok"),
              set_user_language(db_users, u, lang, "error")) :
       \E dbadmin \in Outcomes(dbset # "raise" /\ u # SUPER_ADMIN_ID,
              is_admin(db_users, u, "ok"),
              is_admin(db_users, u, "error")) :
          IF dbset = "raise"
          THEN Raised(u, "lang") /\ db_users' = db_users
          ELSE /\ db_users' = set_user_language(db_users, u, lang, dbset)
               /\ show_main_menu(u, "lang", lang, db_users', dbadmin)
    /\ UNCHANGED <<active_tests, db_questions, db_test_results,
                   db_test_answers, nsessions, ended>>

\* A slip: the empty draw is not checked for.
NoQuestions_unchecked(questions) == FALSE

\* start_test: "if not questions", the draw is empty.
NoQuestions(questions) == questions = <<>>

\* start_test: self.active_tests[user_id] = test_session.
RegisterSession(at, u, test_session) == DictSet(at, u, test_session)

\* callback_handler, data = "subject_<subject>": start_test.
start_test(u, subject) ==
    /\ Counted
    /\ \E dblang \in Outcomes(TRUE,
              get_user_language(db_users, u, "ok"),
              get_user_language(db_users, u, "error")) :
       \E dbdraw \in Outcomes(dblang # "raise",
              get_random_questions(db_questions, subject,
                  get_user_language(db_users, u, dblang),
                  QuestionsPerDraw, "ok"),
              get_random_questions(db_questions, subject,
                  get_user_language(db_users, u, dblang),
                  QuestionsPerDraw, "error")) :
       \E dbshow \in Outcomes(dblang # "raise" /\ dbdraw = "ok",
              get_user_language(db_users, u, "ok"),
              get_user_language(db_users, u, "error")) :
         IF dblang = "raise" \/ dbdraw = "raise"
         THEN /\ Raised(u, "subject")
              /\ now' = now
              /\ UNCHANGED <<active_tests, db_test_results,
                             db_test_answers, nsessions, ended>>
         ELSE
         LET lang == get_user_language(db_users, u, dblang)
         IN  \E questions \in get_random_questions(db_questions, subject, lang,
                                                   QuestionsPerDraw, dbdraw) :
                IF NoQuestions(questions)
                THEN /\ out' = Reply(u, "subject", "no_questions_available", <<>>)
                     /\ now' = now
                     /\ UNCHANGED <<active_tests, db_test_results,
                                    db_test_answers, nsessions, ended>>
                ELSE \E started \in Instants :
                     LET test_session ==
                            [user_id |-> u, subject |-> subject,
                             questions |-> questions, current_question |-> 0,
                             answers |-> EmptyDict, start_time |-> started,
                             sid |-> nsessions + 1]
                     IN  /\ nsessions' = nsessions + 1
                         /\ ended' = IF u \in DOMAIN active_tests
                                      THEN ended \cup {Ended(active_tests, u, "replaced")}
                                      ELSE ended
                         /\ show_question(u, "subject",
                                RegisterSession(active_tests, u, test_session),
                                started, dbshow, "ok", "ok")
    /\ UNCHANGED <<db_users, db_questions>>

\* handle_answer: "if user_id not in self.active_tests: return".
NoSession(at, u) == u \notin DOMAIN at

\* The letters of the answer buttons (main.py:180-184).
ButtonLetters == {"A", "B", "C", "D"}

\* A slip: a letter that is not one of the buttons' is turned away.
StoreAnswer_validOnly(test_session, question_idx, answer) ==
    IF Upper(answer) \in ButtonLetters
    THEN [test_session EXCEPT !.answers = DictSet(@, question_idx, answer),
                              !.current_question = question_idx + 1]
    ELSE test_session

\* A slip: the question answered is taken off the session's list.
StoreAnswer_popsQuestion(test_session, question_idx, answer) ==
    [test_session EXCEPT !.answers = DictSet(@, question_idx, answer),
                         !.current_question = question_idx + 1,
                         !.questions = Tail(@)]

\* A slip: the answer is recorded for the question being shown, whatever
\* index the callback carries.
StoreAnswer_atPosition(test_session, question_idx, answer) ==
    [test_session EXCEPT
        !.answers = DictSet(@, test_session.current_question, answer),
        !.current_question = test_session.current_question + 1]

\* handle_answer: test_session['answers'][question_idx] = answer and
\* test_session['current_question'] = question_idx + 1.
StoreAnswer(test_session, question_idx, answer) ==
    [test_session EXCEPT !.answers = DictSet(@, question_idx, answer),
                         !.current_question = question_idx + 1]

\* callback_handler, data = "answer_<answer>_<question_idx>": handle_answer,
\* with the outcomes of the database calls of show_question and finish_test.
handle_answer_db(u, answer, question_idx, dbshow, dbfin, dbsave) ==
    /\ Counted
    /\ IF NoSession(active_tests, u)
       THEN /\ out' = Reply(u, "answer", "none", <<>>)
            /\ now' = now
            /\ UNCHANGED <<active_tests, db_test_results, db_test_answers>>
       ELSE IF u \notin DOMAIN active_tests
       THEN \* self.active_tests[user_id] raises KeyError
            /\ out' = Reply(u, "answer", "error", "KeyError")
            /\ now' = now
            /\ UNCHANGED <<active_tests, db_test_results, db_test_answers>>
       ELSE LET test_session == active_tests[u]
                stored == StoreAnswer(test_session, question_idx, answer)
            IN  show_question(u, "answer", DictSet(active_tests, u, stored),
                              now, dbshow, dbfin, dbsave)
    /\ UNCHANGED <<db_users, db_questions, nsessions, ended>>

\* callback_handler, data = "answer_<answer>_<question_idx>", whatever the
\* database does.
handle_answer(u, answer, question_idx) ==
    LET session == ~NoSession(active_tests, u) /\ u \in DOMAIN active_tests
        stored == StoreAnswer(active_tests[u], question_idx, answer)
        ends == session /\ AtEnd(stored.current_question, SessionQuestions(stored))
    IN  \E dbshow \in Outcomes(session,
               get_user_language(db_users, u, "ok"),
               get_user_language(db_users, u, "error")) :
        \E dbfin \in Outcomes(ends /\ dbshow # "raise",
               get_user_language(db_users, u, "ok"),
               get_user_language(db_users, u, "error")) :
        \E dbsave \in Calls(ends /\ dbshow # "raise" /\ dbfin # "raise") :
            handle_answer_db(u, answer, question_idx, dbshow, dbfin, dbsave)

\* A slip: cancelling only shows the menu.
CancelSession_forgets(at, u) == at

\* A slip: the whole registry is emptied (self.active_tests.clear()).
CancelSession_clearsAll(at, u) == EmptyDict

\* callback_handler, "cancel_test": the session is deleted if there is one.
CancelSession(at, u) == IF u \in DOMAIN at THEN DictDel(at, u) ELSE at

\* callback_handler, data = "cancel_test".
cancel_test(u) ==
    /\ Handled
    /\ active_tests' = CancelSession(active_tests, u)
    /\ ended' = IF u \in DOMAIN active_tests
                 THEN ended \cup {Ended(active_tests, u, "cancel_test")}
                 ELSE ended
    /\ \E dblang \in Outcomes(TRUE,
              get_user_language(db_users, u, "ok"),
              get_user_language(db_users, u, "error")) :
       \E dbadmin \in Outcomes(dblang # "raise" /\ u # SUPER_ADMIN_ID,
              is_admin(db_users, u, "ok"),
              is_admin(db_users, u, "error")) :
          IF dblang = "raise"
          THEN Raised(u, "cancel_test")
          ELSE show_main_menu(u, "cancel_test",
                              get_user_language(db_users, u, dblang),
                              db_users, dbadmin)
    /\ UNCHANGED <<db_users, db_questions, db_test_results, db_test_answers,
                   nsessions>>

\* show_analysis: "del self.active_tests[user_id]" if there is a session.
ClearSession(at, u) == IF u \in DOMAIN at THEN DictDel(at, u) ELSE at

\* callback_handler, data = "show_analysis": show_analysis.
show_analysis(u) ==
    /\ Handled
    /\ \E dblang \in Outcomes(TRUE,
              get_user_language(db_users, u, "ok"),
              get_user_language(db_users, u, "error")) :
       IF dblang = "raise"
       THEN \* get_user_language raises before the session is read
            /\ Raised(u, "show_analysis")
            /\ UNCHANGED <<active_tests, ended>>
       ELSE
       LET present == u \in DOMAIN active_tests
           has == present /\ "test_answers" \in DOMAIN active_tests[u]
       IN  /\ active_tests' = ClearSession(active_tests, u)
           /\ out' = IF has /\ active_tests[u].test_answers # <<>>
                     THEN Reply(u, "show_analysis", "analysis",
                                active_tests[u].test_answers)
                     ELSE Reply(u, "show_analysis", "no_analysis", <<>>)
           /\ ended' = IF present
                        THEN ended \cup {Ended(active_tests, u, "show_analysis")}
                        ELSE ended
    /\ UNCHANGED <<db_users, db_questions, db_test_results, db_test_answers,
                   nsessions>>

\* The state after DTMTestBot.__init__: no session, an initialised database.
Init ==
    /\ active_tests = EmptyDict
    /\ db_users = EmptyDict
    /\ db_questions = InitialQuestions
    /\ db_test_results = <<>>
    /\ db_test_answers = <<>>
    /\ now = 0
    /\ out = Reply(0, "init", "none", <<>>)
    /\ nsessions = 0
    /\ ended = {}
    /\ inbox = <<>>
    /\ handling = {}
    /\ selections = EmptyDict
    /\ db_admin_users = {SUPER_ADMIN_ID}
    /\ handled = 0

\* A run stops when MaxHandled updates have been handled.
Running == handled < MaxHandled

\* An update handled from its arrival to its handler's return in one step:
\* none waits and none is left in the middle of its handler.  The history
\* of selections is not kept.
Whole == UNCHANGED <<inbox, handling, selections, db_admin_users>>

Next ==
    \/ \E u \in Users : Running /\ Whole /\ start(u)
    \/ \E u \in Users, lang \in {"uz", "ru"} :
          Running /\ Whole /\ select_language(u, lang)
    \/ \E u \in Users, subject \in Subjects :
          Running /\ Whole /\ start_test(u, subject)
    \/ \E u \in Users, answer \in AnswerLetters, question_idx \in Indices :
          Running /\ Whole /\ handle_answer(u, answer, question_idx)
    \/ \E u \in Users : Running /\ Whole /\ cancel_test(u)
    \/ \E u \in Users : Running /\ Whole /\ show_analysis(u)

Spec == Init /\ [][Next]_vars

\* A step within which and before which no tick of the clock passes: every
\* read of the clock gives the instant of the read before.
Quick == now' = now

\* The updates of a quick run: all are handled within one tick.
QuickNext == Quick /\ Next

QuickSpec == Init /\ [][QuickNext]_vars

---------------------------------------------------------------------------
(* Scoring on draws of up to MaxDrawn questions: the last Answer of a test *)
(* taken in the normal flow.                                               *)

\* The first t mathematics/uz sample questions.
SampleRows(t) ==
    [i \in 1..t |-> QuestionRow(i, "mathematics", "uz", SampleCorrect[i])]

\* The same questions in a store that holds the correct letters in upper
\* case (column correct_answer is free text).
UpperRows(t) ==
    [i \in 1..t |-> QuestionRow(i, "mathematics", "uz", Upper(SampleCorrect[i]))]

\* Letters of the last Answer: as the buttons send them, in lower case, and
\* one that is no button's.
ScoreLetters == {"B", "C", "b", "E"}

\* What start_test has drawn from a store of mathematics/uz rows: the rows
\* in any order (ORDER BY RANDOM()).
Drawn(rows) ==
    get_random_questions(rows, "mathematics", "uz", QuestionsPerDraw, "ok")

\* User 1 has sent /start, chosen mathematics, drawn the t questions the
\* store holds in some order and answered all but the last, the first k
\* correctly; the clock was last read when the test was started.
ScoreInit ==
    \E t \in 1..MaxDrawn : \E k \in 0..(t - 1) :
      \E rows \in {SampleRows(t), UpperRows(t)} :
       \E questions \in Drawn(rows), started \in 0..MaxTime :
        /\ db_questions = rows
        /\ db_users = DictSet(EmptyDict, 1, [language |-> "uz", is_admin |-> FALSE])
        /\ active_tests = DictSet(EmptyDict, 1,
              [user_id |-> 1, subject |-> "mathematics",
               questions |-> questions, current_question |-> t - 1,
               answers |-> [i \in 0..(t - 2) |->
                              IF i < k THEN Upper(questions[i + 1].correct_answer)
                                       ELSE "E"],
               start_time |-> started, sid |-> 1])
        /\ db_test_results = <<>>
        /\ db_test_answers = <<>>
        /\ now = started
        /\ out = Reply(1, IF t = 1 THEN "subject" ELSE "answer", "question",
                       [index |-> t - 1, question |-> questions[t].question_text,
                        total_questions |-> t])
        /\ nsessions = 1
        /\ ended = {}
        /\ inbox = <<>>
        /\ handling = {}
        /\ selections = EmptyDict
        /\ db_admin_users = {SUPER_ADMIN_ID}
        /\ handled = 0

\* The last Answer, the one update of the run: for the question shown or,
\* the index being whatever the callback carries, for the one after it.
ScoreNext ==
    \E answer \in ScoreLetters, skip \in {0, 1} :
        /\ handled = 0
        /\ 1 \in DOMAIN active_tests
        /\ InProgress(active_tests[1])
        /\ Whole
        /\ handle_answer(1, answer, active_tests[1].current_question + skip)

ScoreSpec == ScoreInit /\ [][ScoreNext]_vars

\* The test is finished by its last Answer and the user asks for its
\* analysis, once and again.
ReviewNext ==
    \/ ScoreNext
    \/ Whole /\ show_analysis(1)

ReviewSpec == ScoreInit /\ [][ReviewNext]_vars

---------------------------------------------------------------------------
(* Draws made on their own: get_random_questions applied to stores of up   *)
(* to five questions, for each subject, language and count.                *)

\* A store of five questions: three mathematics/uz, one mathematics/ru and
\* one history/uz.
FiveQuestions ==
    InitialQuestions \o << QuestionRow(4, "mathematics", "uz", "c"),
                           QuestionRow(5, "history", "uz", "a") >>

DrawInit ==
    /\ \E n \in 0..Len(FiveQuestions) : db_questions = SubSeq(FiveQuestions, 1, n)
    /\ active_tests = EmptyDict
    /\ db_users = EmptyDict
    /\ db_test_results = <<>>
    /\ db_test_answers = <<>>
    /\ now = 0
    /\ out = Reply(0, "init", "none", <<>>)
    /\ nsessions = 0
    /\ ended = {}
    /\ inbox = <<>>
    /\ handling = {}
    /\ selections = EmptyDict
    /\ db_admin_users = {SUPER_ADMIN_ID}
    /\ handled = 0

\* One call of get_random_questions with outcome db; ok tells whether the
\* query succeeded.
Draw(subject, language, count, db) ==
    /\ IF db = "raise"
       THEN out' = Reply(0, "get_random_questions", "error", "OperationalError")
       ELSE \E questions \in get_random_questions(db_questions, subject,
                                                  language, count, db) :
              out' = Reply(0, "get_random_questions", "drawn",
                       [subject |-> subject, language |-> language,
                        count |-> count, ok |-> (db = "ok"),
                        questions |-> questions])
    /\ UNCHANGED <<active_tests, db_users, db_questions, db_test_results,
                   db_test_answers, now, nsessions, ended, inbox, handling,
                   selections, db_admin_users, handled>>

DrawNext ==
    \E subject \in Subjects, language \in {"uz", "ru"}, count \in 0..MaxCount,
       db \in DbOutcomes : Draw(subject, language, count, db)

DrawSpec == DrawInit /\ [][DrawNext]_vars

---------------------------------------------------------------------------
(* The menus: /start, the language buttons and the subject buttons, with   *)
(* the callback data being any string after "lang_" and "subject_".        *)

\* config.py: SUPPORTED_LANGUAGES.
SUPPORTED_LANGUAGES == {"uz", "ru", "en"}

\* config.py: SUBJECTS.
SUBJECTS == {"mathematics", "history", "english", "biology", "chemistry", "law"}

\* data.split("_")[1] of "lang_<lang>": the three buttons, "xx" for any other
\* string, and the empty string of the data "lang_".
MenuLanguages == SUPPORTED_LANGUAGES \cup {"xx", ""}

\* data.split("_", 1)[1] of "subject_<subject>": the subjects of the runs
\* and "zz" for any other string.
MenuSubjects == Subjects \cup {"zz"}

\* History: user u has selected lang.
Selected(u, lang) == selections' = DictSet(selections, u, lang)

MenuNext ==
    \/ \E u \in Users : Running /\ Whole /\ start(u)
    \/ \E u \in Users, lang \in MenuLanguages :
          /\ Running
          /\ UNCHANGED <<inbox, handling, db_admin_users>>
          /\ Selected(u, lang)
          /\ select_language(u, lang)
    \/ \E u \in Users, subject \in MenuSubjects :
          Running /\ Whole /\ start_test(u, subject)

MenuSpec == Init /\ [][MenuNext]_vars

---------------------------------------------------------------------------
(* The save on its own: finish_test saves the results of tests of one or   *)
(* more questions, and a save may fail at any of its statements.           *)

\* finish_test saving the result of a test of t questions, answered B at
\* index 0; the save gets `done` statements through.
SaveUpto(u, t, done) ==
    /\ nsessions < MaxResults
    /\ LET questions == SampleRows(t)
           answers == DictSet(EmptyDict, 0, "B")
           correct_count == CorrectCount(questions, answers)
           row == [id |-> 0, user_id |-> u, subject |-> "mathematics",
                   correct_answers |-> correct_count,
                   total_questions |-> Len(questions),
                   percentage |-> Percentage(correct_count, Len(questions)),
                   duration |-> 0, test_date |-> CURRENT_TIMESTAMP(now),
                   session |-> nsessions + 1]
           test_answers == BuildTranscript(questions, answers)
           saved == save_test_result_upto(db_test_results, db_test_answers,
                                          row, test_answers, done)
           db == IF done >= t + 2 THEN "ok" ELSE "error"
       IN  /\ db_test_results' = saved.results
           /\ db_test_answers' = saved.answers
           /\ out' = Reply(u, "save_test_result", "saved",
                           [id |-> saved.id, total_questions |-> t,
                            done |-> done,
                            same |-> saved = save_test_result(db_test_results,
                                db_test_answers, row, test_answers, db)])
    /\ nsessions' = nsessions + 1
    /\ UNCHANGED <<active_tests, db_users, db_questions, now, ended, inbox,
                   handling, selections, db_admin_users, handled>>

\* finish_test calling save_test_result when sqlite3.connect raises: the
\* method raises before any statement.
SaveRaises(u) ==
    /\ nsessions < MaxResults
    /\ out' = Reply(u, "save_test_result", "error", "OperationalError")
    /\ nsessions' = nsessions + 1
    /\ UNCHANGED <<active_tests, db_users, db_questions, db_test_results,
                   db_test_answers, now, ended, inbox, handling, selections,
                   db_admin_users, handled>>

SaveNext ==
    \/ \E u \in Users, t \in 1..MaxTranscript :
          \E done \in 0..(t + 2) : SaveUpto(u, t, done)
    \/ \E u \in Users : SaveRaises(u)

SaveSpec == Init /\ [][SaveNext]_vars

---------------------------------------------------------------------------
(* The admins: users register with /start, admins are added and the        *)
(* capability is checked, for the users of the runs and the super admin.   *)

AdminUsers == Users \cup {SUPER_ADMIN_ID}

\* /start of u as far as the users table goes: register_user.
Register(u) ==
    /\ \E dbreg \in DbOutcomes :
          IF dbreg = "raise"
          THEN /\ db_users' = db_users
               /\ Raised(u, "register_user")
          ELSE /\ db_users' = register_user(db_users, u, dbreg)
               /\ out' = Reply(u, "register_user", "none", <<>>)
    /\ UNCHANGED <<active_tests, db_questions, db_test_results,
                   db_test_answers, now, nsessions, ended, inbox, handling,
                   selections, db_admin_users, handled>>

\* add_admin(u).
Grant(u) ==
    /\ \E db \in DbOutcomes :
          IF db = "raise"
          THEN /\ Raised(u, "add_admin")
               /\ UNCHANGED <<db_admin_users, db_users>>
          ELSE LET added == add_admin(db_admin_users, db_users, u, db)
               IN  /\ db_admin_users' = added.admins
                   /\ db_users' = added.users
                   /\ out' = Reply(u, "add_admin", "returned", added.ok)
    /\ UNCHANGED <<active_tests, db_questions, db_test_results,
                   db_test_answers, now, nsessions, ended, inbox, handling,
                   selections, handled>>

\* AdminManager.is_admin(u), as show_main_menu and the admin panel ask it.
Check(u) ==
    /\ \E db \in DbOutcomes :
          IF db = "raise" /\ u # SUPER_ADMIN_ID
          THEN Raised(u, "is_admin")
          ELSE out' = Reply(u, "is_admin", "returned", is_admin(db_users, u, db))
    /\ UNCHANGED <<active_tests, db_users, db_questions, db_test_results,
                   db_test_answers, now, nsessions, ended, inbox, handling,
                   selections, db_admin_users, handled>>

AdminNext ==
    \/ \E u \in AdminUsers : Register(u)
    \/ \E u \in AdminUsers : Grant(u)
    \/ \E u \in AdminUsers : Check(u)

AdminSpec == Init /\ [][AdminNext]_vars

---------------------------------------------------------------------------
(* The store growing under a test: user 1 takes tests while questions are  *)
(* added to the store, all within one tick of the clock.                   *)

\* A mathematics/uz question is added to the store.
AddQuestion(correct_answer) ==
    /\ Len(db_questions) < Len(InitialQuestions) + MaxAdded
    /\ \E db \in DbOutcomes :
          db_questions' = IF db = "raise" THEN db_questions
                          ELSE add_question(db_questions, "mathematics", "uz",
                                            correct_answer, db)
    /\ UNCHANGED <<active_tests, db_users, db_test_results, db_test_answers,
                   now, out, nsessions, ended, inbox, handling,
                   selections, db_admin_users, handled>>

StoreNext ==
    \/ Quick /\ Running /\ Whole /\ start_test(1, "mathematics")
    \/ \E answer \in AnswerLetters, question_idx \in Indices :
          Quick /\ Running /\ Whole /\ handle_answer(1, answer, question_idx)
    \/ AddQuestion("c")

StoreSpec == Init /\ [][StoreNext]_vars

---------------------------------------------------------------------------
(* The result list on its own: tests of one question are completed as the  *)
(* time passes, and the list of a user's results is asked for.             *)

\* finish_test saving the result of a test of one question, answered B.
Complete(u) ==
    /\ Len(db_test_results) < MaxResults
    /\ \E inserted \in Instants :
       LET questions == SampleRows(1)
           answers == DictSet(EmptyDict, 0, "B")
           correct_count == CorrectCount(questions, answers)
           row == [id |-> 0, user_id |-> u, subject |-> "mathematics",
                   correct_answers |-> correct_count,
                   total_questions |-> Len(questions),
                   percentage |-> Percentage(correct_count, Len(questions)),
                   duration |-> 0, test_date |-> CURRENT_TIMESTAMP(inserted),
                   session |-> nsessions + 1]
           saved == save_test_result(db_test_results, db_test_answers, row,
                                     BuildTranscript(questions, answers), "ok")
       IN  /\ db_test_results' = saved.results
           /\ db_test_answers' = saved.answers
           /\ out' = Reply(u, "save_test_result", "saved", [id |-> saved.id])
           /\ now' = inserted
    /\ nsessions' = nsessions + 1
    /\ UNCHANGED <<active_tests, db_users, db_questions, ended, inbox,
                   handling,
                   selections, db_admin_users, handled>>

ListLimits == (0..MaxLimit) \cup {ResultsLimit}

\* show_results: the list of the user's results is read.
ListRecent(u, limit, db) ==
    /\ out' = IF db = "raise"
              THEN Reply(u, "get_user_results", "error", "OperationalError")
              ELSE Reply(u, "get_user_results", "list",
                    [limit |-> limit, ok |-> (db = "ok"),
                     results |-> get_user_results(db_test_results, u, limit, db)])
    /\ UNCHANGED <<active_tests, db_users, db_questions, db_test_results,
                   db_test_answers, now, nsessions, ended, inbox, handling,
                   selections, db_admin_users, handled>>

ListNext ==
    \/ \E u \in Users : Complete(u)
    \/ \E u \in Users, limit \in ListLimits, db \in DbOutcomes :
          ListRecent(u, limit, db)

ListSpec == Init /\ [][ListNext]_vars

---------------------------------------------------------------------------
(* The normal flow of one test: user 1 has chosen mathematics and is shown *)
(* the first of t questions; every Answer carries the index of the         *)
(* question shown, and the user keeps answering.                           *)

FlowInit ==
    \E t \in 1..MaxDrawn : \E questions \in Drawn(SampleRows(t)) :
      \E started \in 0..MaxTime :
        /\ db_questions = SampleRows(t)
        /\ db_users = DictSet(EmptyDict, 1, [language |-> "uz", is_admin |-> FALSE])
        /\ active_tests = DictSet(EmptyDict, 1,
              [user_id |-> 1, subject |-> "mathematics",
               questions |-> questions, current_question |-> 0,
               answers |-> EmptyDict, start_time |-> started, sid |-> 1])
        /\ db_test_results = <<>>
        /\ db_test_answers = <<>>
        /\ now = started
        /\ out = Reply(1, "subject", "question",
                       [index |-> 0, question |-> questions[1].question_text,
                        total_questions |-> t])
        /\ nsessions = 1
        /\ ended = {}
        /\ inbox = <<>>
        /\ handling = {}
        /\ selections = EmptyDict
        /\ db_admin_users = {SUPER_ADMIN_ID}
        /\ handled = 0

\* The index of the question user 1 is shown: that of the last question
\* sent, which stays on the screen when the handler of an Answer raises
\* after the position has moved on.
Shown ==
    IF out.kind = "question" THEN out.data.index
    ELSE active_tests[1].current_question - 1

\* The user presses a button of the question shown.
FlowNext ==
    \E answer \in AnswerLetters :
        /\ 1 \in DOMAIN active_tests
        /\ InProgress(active_tests[1])
        /\ Whole
        /\ handle_answer(1, answer, Shown)

\* The user keeps answering: a button that can be pressed is pressed.
FlowSpec == FlowInit /\ [][FlowNext]_vars /\ WF_vars(FlowNext)

---------------------------------------------------------------------------
(* The current question read again: show_question applied to a registered  *)
(* session whose position is before the end of its draw, between the        *)
(* updates of a run in which the clock gives a new instant only when user  *)
(* 1 starts a test.                                                         *)

CurrentQuestion(u) ==
    /\ u \in DOMAIN active_tests
    /\ active_tests[u].current_question < Len(active_tests[u].questions)
    /\ \E dblang \in Outcomes(TRUE,
              get_user_language(db_users, u, "ok"),
              get_user_language(db_users, u, "error")) :
          show_question(u, "show_question", active_tests, now, dblang,
                        "ok", "ok")
    /\ UNCHANGED <<db_users, db_questions, now, nsessions, ended, handled>>
    /\ Whole

ReadNext ==
    \/ QuickNext
    \/ Running /\ Whole /\ start_test(1, "mathematics")
    \/ \E u \in Users : CurrentQuestion(u)

ReadSpec == Init /\ [][ReadNext]_vars

---------------------------------------------------------------------------
(* The updates of a run from their arrival to their handlers' return.  The *)
(* application is built without concurrent updates (main.py:465): it gives *)
(* the next update to its handler when the handler of the one before has   *)
(* returned.  callback_handler first awaits query.answer() (main.py:394);  *)
(* from there to the message it sends last, a handler awaits nothing but   *)
(* its own coroutines, and database calls are synchronous: what a handler  *)
(* does to the registry and the database happens in one stretch.  The      *)
(* updates of these runs are handled within one tick of the clock.         *)

\* The callbacks that arrive: the data of "subject_mathematics",
\* "answer_B_<i>", "cancel_test" and "show_analysis".
Callbacks ==
    {<<"subject", "mathematics">>, <<"answer", "B", 0>>, <<"answer", "B", 1>>,
     <<"cancel_test">>, <<"show_analysis">>}

\* The updates that have arrived so far.
Arrived ==
    handled + Len(inbox) + Cardinality({h \in handling : h.pc \in {"ack", "saving"}})

\* An update arrives from Telegram.
Arrive(u, data) ==
    /\ Arrived < MaxUpdates
    /\ inbox' = Append(inbox, [user |-> u, data |-> data])
    /\ UNCHANGED <<active_tests, db_users, db_questions, db_test_results,
                   db_test_answers, now, out, nsessions, ended, handling,
                   selections, db_admin_users, handled>>

\* A slip: the application built with concurrent_updates(True).
Idle_concurrent(h) == TRUE

\* The application takes the next update when no handler is running.
Idle(h) == h = {}

\* The oldest update waiting is given to callback_handler, which runs up to
\* "await query.answer()".
Dispatch ==
    /\ inbox # <<>>
    /\ Idle(handling)
    /\ handling' = handling \cup {[update |-> Head(inbox), pc |-> "ack", found |-> <<>>]}
    /\ inbox' = Tail(inbox)
    /\ UNCHANGED <<active_tests, db_users, db_questions, db_test_results,
                   db_test_answers, now, out, nsessions, ended,
                   selections, db_admin_users, handled>>

\* handle_answer will reach save_test_result: there is a session and the
\* position after the answer is not before the end of the draw.
ReachesSave(u, question_idx) ==
    /\ u \in DOMAIN active_tests
    /\ question_idx + 1 >= Len(active_tests[u].questions)

\* callback_handler after "await query.answer()": the handler of the
\* callback runs to the last message it sends or, an Answer that ends the
\* test, into save_test_result, the answer stored already, unless a
\* get_user_language on the way raises.
Run(h) ==
    LET u == h.update.user
        data == h.update.data
    IN  /\ h.pc = "ack"
        /\ Quick
        /\ UNCHANGED <<inbox, selections, db_admin_users>>
        /\ \/ /\ data[1] = "answer" /\ ReachesSave(u, data[3])
              /\ active_tests' = DictSet(active_tests, u,
                     StoreAnswer(active_tests[u], data[3], data[2]))
              /\ handling' = (handling \ {h}) \cup
                     {[h EXCEPT !.pc = "saving", !.found = <<active_tests[u]>>]}
              /\ UNCHANGED <<db_users, db_questions, db_test_results,
                             db_test_answers, now, out, nsessions, ended,
                             handled>>
           \/ /\ data[1] = "answer" /\ ReachesSave(u, data[3])
              /\ handling' = (handling \ {h}) \cup {[h EXCEPT !.pc = "send"]}
              /\ \E dbshow \in DbOutcomes, dbfin \in DbOutcomes :
                    /\ dbshow = "raise" \/ dbfin = "raise"
                    /\ handle_answer_db(u, data[2], data[3], dbshow, dbfin, "ok")
           \/ /\ ~(data[1] = "answer" /\ ReachesSave(u, data[3]))
              /\ handling' = (handling \ {h}) \cup {[h EXCEPT !.pc = "send"]}
              /\ CASE data[1] = "subject" -> start_test(u, data[2])
                   [] data[1] = "answer" -> handle_answer(u, data[2], data[3])
                   [] data[1] = "cancel_test" -> cancel_test(u)
                   [] data[1] = "show_analysis" -> show_analysis(u)

\* finish_test from save_test_result on: the rows are written, the
\* transcript is stored on the session, the summary is ready to be sent.
Save(h) ==
    /\ h.pc = "saving"
    /\ Quick
    /\ Counted
    /\ \E dbsave \in DbOutcomes :
          finish_test(h.update.user, "answer", active_tests, now, "ok",
                      dbsave)
    /\ handling' = (handling \ {h}) \cup {[h EXCEPT !.pc = "send"]}
    /\ UNCHANGED <<db_users, db_questions, nsessions, ended, inbox,
                   selections, db_admin_users>>

\* The last message of the handler is sent and the handler returns.
Sent(h) ==
    /\ h.pc = "send"
    /\ handling' = handling \ {h}
    /\ UNCHANGED <<active_tests, db_users, db_questions, db_test_results,
                   db_test_answers, now, out, nsessions, ended, inbox,
                   selections, db_admin_users, handled>>

DispatchNext ==
    \/ \E u \in Users, data \in Callbacks : Arrive(u, data)
    \/ Dispatch
    \/ \E h \in handling : Run(h)
    \/ \E h \in handling : Save(h)
    \/ \E h \in handling : Sent(h)

DispatchSpec == Init /\ [][DispatchNext]_vars

---------------------------------------------------------------------------
(* The claims. *)

\* The reply of a handler that raised the OperationalError of a database
\* call (sqlite3.connect raising inside a DatabaseManager method).
DatabaseDown(reply) == reply.kind = "error" /\ reply.data = "OperationalError"

\* The summary rows a session produced.
ResultsOf(sid) ==
    {i \in DOMAIN db_test_results : db_test_results[i].session = sid}

\* C1: the Result Store never holds more than one TestResult produced from
\* the same session, whatever Answer actions arrive after its completion.
C1_OneResultPerSession ==
    \A i \in DOMAIN db_test_results, j \in DOMAIN db_test_results :
        db_test_results[i].session = db_test_results[j].session => i = j

\* C2: while a session is in progress, the answered indices are exactly
\* 0 .. position-1: the position equals the number of answered indices, no
\* index is skipped and none beyond the position is recorded.
C2_PositionCountsAnswers ==
    \A u \in DOMAIN active_tests :
        InProgress(active_tests[u]) =>
            DOMAIN active_tests[u].answers =
                0..(active_tests[u].current_question - 1)

\* C3: a session for which a result has been computed has an answer for
\* each index 0..N-1 of its N questions, so at least N Answer actions were
\* made.
C3_FinishNeedsAllAnswers ==
    \A u \in DOMAIN active_tests :
        ~InProgress(active_tests[u]) =>
            (0..(Len(active_tests[u].questions) - 1))
                \subseteq DOMAIN active_tests[u].answers

\* The sessions created for u so far: the registered one and those that a
\* cancel, a show_analysis or a new test has ended.
SidsOf(u) ==
    {e.sid : e \in {x \in ended : x.user_id = u}}
        \cup (IF u \in DOMAIN active_tests THEN {active_tests[u].sid} ELSE {})

\* The transcript of u's latest session has been returned by show_analysis,
\* and u has started no test since.
Consumed(u) ==
    \E e \in ended :
        /\ e.user_id = u /\ e.how = "show_analysis" /\ ~e.in_progress
        /\ \A sid \in SidsOf(u) : sid <= e.sid

\* sid is not the session of any user in the registry.
Unregistered(sid) ==
    \A u \in DOMAIN active_tests : active_tests[u].sid # sid

\* C4: once show_analysis has returned the transcript of a user's completed
\* session, the user has no session in the registry, and no later
\* show_analysis of that user, as long as no new test was started, returns
\* a transcript: it answers "no analysis available".
C4_AnalysisSingleUse ==
    /\ [](\A u \in Users : Consumed(u) => u \notin DOMAIN active_tests)
    /\ [][\A u \in Users :
            (Consumed(u) /\ out'.op = "show_analysis" /\ out'.user = u)
                => /\ out'.kind = "no_analysis"
                   /\ u \notin DOMAIN active_tests']_vars

\* C5 as claimed: after a SelectSubject whose draw is empty, the user has no
\* session in the registry.
C5_EmptyDrawFindsNothing ==
    (out.op = "subject" /\ out.kind = "no_questions_available")
        => out.user \notin DOMAIN active_tests

\* C5, amended: a SelectSubject whose draw is empty registers no session
\* and leaves the registry as it was (a user without a session has none
\* afterwards, a session the user already had stays), and the user is told
\* that no questions are available; a SelectSubject that shows a question
\* has registered a new session, and every registered session has a
\* non-empty draw.  A SelectSubject answers with one of the two unless a
\* database call raises.
C5_EmptyDrawRegistersNothing ==
    /\ [](\A u \in DOMAIN active_tests : Len(active_tests[u].questions) > 0)
    /\ [][out'.op = "subject" =>
            \/ /\ out'.kind = "no_questions_available"
               /\ active_tests' = active_tests
               /\ nsessions' = nsessions
            \/ /\ out'.kind = "question"
               /\ nsessions' = nsessions + 1
               /\ out'.user \in DOMAIN active_tests'
               /\ active_tests'[out'.user].sid = nsessions'
            \/ DatabaseDown(out')]_vars

\* C5, its case: an empty draw for a user who has no session.
C5_Witness ==
    /\ out.op = "subject" /\ out.kind = "no_questions_available"
    /\ out.user \notin DOMAIN active_tests

\* C6: a new test with a non-empty draw, started by a user whose session is
\* in progress, raises no error: it shows the first question of the new
\* session, which is then the user's only session in the registry, at
\* position 0 with an empty answer map; and no TestResult is ever persisted
\* for the discarded session.
C6_ReplaceDiscardsOld ==
    /\ [](\A e \in ended :
            (e.how = "replaced" /\ e.in_progress)
                => ResultsOf(e.sid) = {} /\ Unregistered(e.sid))
    /\ [][\A u \in Users :
            (/\ out'.op = "subject" /\ out'.user = u
             /\ u \in DOMAIN active_tests /\ InProgress(active_tests[u])
             /\ nsessions' = nsessions + 1)
                => /\ out'.kind = "question"
                   /\ out'.data.index = 0
                   /\ u \in DOMAIN active_tests'
                   /\ active_tests'[u].sid = nsessions'
                   /\ active_tests'[u].current_question = 0
                   /\ active_tests'[u].answers = EmptyDict
                   /\ InProgress(active_tests'[u])]_vars

\* C7: cancelling an in-progress session removes it from the registry and
\* appends nothing to the Result Store, and no TestResult is ever persisted
\* for the cancelled session.
C7_CancelDiscards ==
    /\ [](\A e \in ended :
            (e.how = "cancel_test" /\ e.in_progress)
                => ResultsOf(e.sid) = {} /\ Unregistered(e.sid))
    /\ [][out'.op = "cancel_test" =>
            /\ out'.user \notin DOMAIN active_tests'
            /\ db_test_results' = db_test_results
            /\ db_test_answers' = db_test_answers]_vars

\* C7, its case: an Answer that arrived after the user's in-progress session
\* was cancelled.
C7_Witness ==
    \E e \in ended :
        /\ e.how = "cancel_test" /\ e.in_progress
        /\ out.op = "answer" /\ out.user = e.user_id
        /\ e.user_id \notin DOMAIN active_tests

\* C8: an Answer, CancelTest or ShowAnalysis of a user without a session
\* changes neither the registry nor the Result Store and raises no error.
C8_NoSessionNoOp ==
    [][\A u \in Users :
         (/\ u \notin DOMAIN active_tests
          /\ out'.user = u
          /\ out'.op \in {"answer", "cancel_test", "show_analysis"})
            => /\ active_tests' = active_tests
               /\ db_test_results' = db_test_results
               /\ db_test_answers' = db_test_answers
               /\ out'.kind # "error"]_vars

\* C9: at every Finish, correct + wrong is the number of drawn questions,
\* 0 <= correct <= total, and the persisted TestResult records the same
\* correct count and total.
C9_CountsAddUp ==
    out.kind = "result" =>
        LET d == out.data
            test_session == active_tests[out.user]
        IN  /\ d.total_questions = Len(test_session.questions)
            /\ d.correct_count + d.wrong_count = d.total_questions
            /\ 0 <= d.correct_count /\ d.correct_count <= d.total_questions
            /\ d.test_result_id # 0 =>
                  /\ d.test_result_id \in DOMAIN db_test_results
                  /\ db_test_results[d.test_result_id].correct_answers
                        = d.correct_count
                  /\ db_test_results[d.test_result_id].total_questions
                        = d.total_questions
                  /\ db_test_results[d.test_result_id].user_id = out.user

\* C9, its case: a persisted Finish of a session with an unanswered index.
C9_Witness ==
    /\ out.kind = "result" /\ out.data.test_result_id # 0
    /\ \E i \in 0..(out.data.total_questions - 1) :
          i \notin DOMAIN active_tests[out.user].answers

Abs(x) == IF x < 0 THEN 0 - x ELSE x

\* C10: at every Finish the percentage, in tenths, is the tenth nearest to
\* 100 * correct / total, and the persisted TestResult records the same
\* percentage.
C10_PercentageRounded ==
    (out.kind = "result" /\ out.data.total_questions > 0) =>
        LET d == out.data
        IN  /\ 2 * Abs(d.percentage * d.total_questions - 1000 * d.correct_count)
                  <= d.total_questions
            /\ d.test_result_id # 0 =>
                  db_test_results[d.test_result_id].percentage = d.percentage

\* C10, its case: 2 of 3 correct is reported and persisted as 66.7.
C10_Witness ==
    /\ out.kind = "result" /\ out.data.test_result_id # 0
    /\ out.data.total_questions = 3 /\ out.data.correct_count = 2
    /\ out.data.percentage = 667
    /\ db_test_results[out.data.test_result_id].percentage = 667

\* The child rows persisted with summary row id, in the order of their
\* insertion.
ChildRows(id) ==
    SelectSeq(db_test_answers, LAMBDA r : r.test_result_id = id)

\* The indices of the draw of test_session that have no entry in its answer
\* map.
Unanswered(test_session) ==
    {i \in 0..(Len(test_session.questions) - 1) :
        i \notin DOMAIN test_session.answers}

\* C11: at Finish, every index of the draw without an entry in the answer
\* map is scored incorrect: its transcript record (and its persisted row)
\* has an empty submitted answer and correctness false, and it does not
\* count toward the correct count.
C11_UnansweredScoresWrong ==
    out.kind = "result" =>
        LET test_session == active_tests[out.user]
            d == out.data
        IN  /\ \A i \in Unanswered(test_session) :
                  /\ test_session.test_answers[i + 1].user_answer = ""
                  /\ test_session.test_answers[i + 1].is_correct = FALSE
                  /\ d.test_result_id # 0 =>
                        /\ ChildRows(d.test_result_id)[i + 1].user_answer = ""
                        /\ ChildRows(d.test_result_id)[i + 1].is_correct = 0
            /\ d.correct_count + Cardinality(Unanswered(test_session))
                  <= d.total_questions
            /\ d.wrong_count >= Cardinality(Unanswered(test_session))

\* C11, its case: three questions drawn against the order of their ids,
\* indices 0 and 1 answered correctly and index 2 left unanswered: 2
\* correct, 1 wrong, 66.7 percent.
C11_Witness ==
    /\ out.kind = "result" /\ out.data.total_questions = 3
    /\ active_tests[out.user].questions[1].id = 3
    /\ Unanswered(active_tests[out.user]) = {2}
    /\ out.data.correct_count = 2 /\ out.data.wrong_count = 1
    /\ out.data.percentage = 667

\* Two letters that differ at most in case.
SameLetter(x, y) ==
    \/ x = y
    \/ {x, y} \in {{"a", "A"}, {"b", "B"}, {"c", "C"}, {"d", "D"}, {"e", "E"}}

\* C12: at Finish an answered index is scored correct if and only if the
\* submitted letter and the question's correct letter are equal up to case,
\* in whichever case either is stored; the correct count is the number of
\* such indices.
C12_CaseInsensitive ==
    out.kind = "result" =>
        LET test_session == active_tests[out.user]
            questions == test_session.questions
            answers == test_session.answers
            answered == (0..(Len(questions) - 1)) \cap DOMAIN answers
        IN  /\ \A i \in answered :
                  test_session.test_answers[i + 1].is_correct
                      <=> SameLetter(answers[i], questions[i + 1].correct_answer)
            /\ out.data.correct_count =
                  Cardinality({i \in answered :
                      SameLetter(answers[i], questions[i + 1].correct_answer)})

\* C12, its case: a lower-case "b" submitted for a question whose correct
\* letter is stored as "B" is scored correct.
C12_Witness ==
    /\ out.kind = "result"
    /\ \E i \in DOMAIN active_tests[out.user].answers :
          /\ i >= 0 /\ i < Len(active_tests[out.user].questions)
          /\ active_tests[out.user].answers[i] = "b"
          /\ active_tests[out.user].questions[i + 1].correct_answer = "B"
          /\ active_tests[out.user].test_answers[i + 1].is_correct

\* C13: an Answer whose letter is no button's is not turned away: it is
\* stored in the answer map under the index it carries and the position
\* becomes that index plus one, as for any letter, also when a database
\* call of the handler raises afterwards; at Finish that index is scored
\* wrong, the transcript showing the letter as submitted.
C13_OddLetterStored ==
    /\ [][\A u \in Users, question_idx \in Indices :
            (/\ out'.op = "answer" /\ out'.user = u
             /\ u \in DOMAIN active_tests
             /\ handle_answer(u, "E", question_idx))
                => /\ u \in DOMAIN active_tests'
                   /\ active_tests'[u].answers =
                         DictSet(active_tests[u].answers, question_idx, "E")
                   /\ active_tests'[u].current_question = question_idx + 1
                   /\ out'.kind \in {"question", "result"} \/ DatabaseDown(out')]_vars
    /\ [](out.kind = "result" =>
            LET test_session == active_tests[out.user]
                answers == test_session.answers
            IN  \A i \in (0..(Len(test_session.questions) - 1)) \cap DOMAIN answers :
                    Upper(answers[i]) \notin ButtonLetters =>
                        /\ test_session.test_answers[i + 1].is_correct = FALSE
                        /\ test_session.test_answers[i + 1].user_answer
                              = Upper(answers[i]))

\* C13, its case: a persisted Finish of a session that holds the letter "E"
\* for one of its questions, scored wrong.
C13_Witness ==
    /\ out.kind = "result" /\ out.data.test_result_id # 0
    /\ \E i \in DOMAIN active_tests[out.user].answers :
          /\ i >= 0 /\ i < Len(active_tests[out.user].questions)
          /\ active_tests[out.user].answers[i] = "E"
          /\ ~active_tests[out.user].test_answers[i + 1].is_correct
          /\ out.data.wrong_count >= 1

\* C14: a Finish whose save fails, by a statement that raises or by the
\* connection that cannot be opened, still reports the summary and stores
\* the transcript on the session, and nothing is persisted.
C14_SaveFailureNotFatal ==
    [][\A u \in Users, answer \in AnswerLetters, question_idx \in Indices,
         dbsave \in {"error", "raise"} :
         (/\ u \in DOMAIN active_tests
          /\ LET stored == StoreAnswer(active_tests[u], question_idx, answer)
             IN  AtEnd(stored.current_question, SessionQuestions(stored))
          /\ handle_answer_db(u, answer, question_idx, "ok", "ok", dbsave))
            => /\ out'.kind = "result"
               /\ out'.data.test_result_id = 0
               /\ ~InProgress(active_tests'[u])
               /\ active_tests'[u].test_answers =
                     BuildTranscript(active_tests'[u].questions,
                                     active_tests'[u].answers)
               /\ db_test_results' = db_test_results
               /\ db_test_answers' = db_test_answers]_vars

\* C15: showing the current question of a session whose position is before
\* the end of its draw changes neither the registry (position and answer
\* map included) nor the Result Store, returns the question at the
\* position, and returns what the previous showing to that user returned,
\* however often it is repeated.
C15_ShowIsIdempotent ==
    [][\A u \in Users :
         (out'.op = "show_question" /\ out'.user = u)
            => /\ active_tests' = active_tests
               /\ db_test_results' = db_test_results
               /\ db_test_answers' = db_test_answers
               /\ out'.kind = "question"
               /\ out'.data.index = active_tests[u].current_question
               /\ out'.data.question =
                     PyIndex(active_tests[u].questions,
                             active_tests[u].current_question).question_text
               /\ (out.user = u /\ out.kind = "question")
                     => out'.data = out.data]_vars

\* C16: two actions of one user never interleave.  At most one handler is
\* between its start and its return; while a handler is in its save, no
\* step but its own touches the registry or the Result Store; and the
\* handler of an Answer that ends the test leaves what that Answer, run in
\* one piece on the session it found, leaves: the answers it found plus its
\* own and, unless save_test_result raises, their transcript and their
\* score.
C16_HandlersRunOneAfterTheOther ==
    /\ [](Cardinality(handling) <= 1)
    /\ [][\A h \in handling :
            h.pc = "saving" =>
                LET u == h.update.user
                    stored == StoreAnswer(h.found[1], h.update.data[3],
                                          h.update.data[2])
                IN  IF h \in handling'
                    THEN /\ active_tests' = active_tests
                         /\ db_test_results' = db_test_results
                         /\ db_test_answers' = db_test_answers
                    ELSE /\ u \in DOMAIN active_tests'
                         /\ active_tests'[u].sid = stored.sid
                         /\ active_tests'[u].answers = stored.answers
                         /\ active_tests'[u].current_question
                               = stored.current_question
                         /\ out'.user = u
                         /\ IF out'.kind = "error"
                            THEN /\ out'.data = "OperationalError"
                                 /\ active_tests'[u] = stored
                                 /\ db_test_results' = db_test_results
                                 /\ db_test_answers' = db_test_answers
                            ELSE /\ ~InProgress(active_tests'[u])
                                 /\ active_tests'[u].test_answers =
                                       BuildTranscript(stored.questions,
                                                       stored.answers)
                                 /\ out'.kind = "result"
                                 /\ out'.data.correct_count =
                                       CorrectCount(stored.questions,
                                                    stored.answers)
                         /\ \A v \in DOMAIN active_tests \ {u} :
                               /\ v \in DOMAIN active_tests'
                               /\ active_tests'[v] = active_tests[v]]_vars

\* C16, its case: a second tap of the user has arrived while the handler
\* of the first, an Answer that ends the test, is in its save.
C16_Witness ==
    \E h \in handling :
        /\ h.pc = "saving"
        /\ inbox # <<>>
        /\ Head(inbox).user = h.update.user
        /\ Head(inbox).data[1] = "answer"

\* C17: while the handler of one user's Answer is in its save, no action
\* on the session of another user waits for a handler.
C17_OtherUsersNotStalled ==
    \A h \in handling :
        h.pc = "saving" =>
            \A i \in DOMAIN inbox :
                \/ inbox[i].user = h.update.user
                \/ inbox[i].user \notin DOMAIN active_tests

\* C18: within one session the position never becomes smaller: no update
\* leaves the session of a user with a position below the one it had.
C18_PositionNeverDecreases ==
    [][\A u \in Users :
         (/\ u \in DOMAIN active_tests /\ u \in DOMAIN active_tests'
          /\ active_tests'[u].sid = active_tests[u].sid)
            => active_tests'[u].current_question
                  >= active_tests[u].current_question]_vars

\* C19: once a session has completed (its transcript is set), it accepts no
\* further answer and its user is not shown a question of it again.
C19_CompletedStaysCompleted ==
    [][\A u \in Users :
         (/\ u \in DOMAIN active_tests /\ ~InProgress(active_tests[u])
          /\ u \in DOMAIN active_tests'
          /\ active_tests'[u].sid = active_tests[u].sid)
            => /\ active_tests'[u].answers = active_tests[u].answers
               /\ ~(out'.user = u /\ out'.kind = "question")]_vars

\* C20: a show_analysis of a user whose session is in progress neither
\* removes nor alters that session.
C20_AnalysisLeavesInProgressAlone ==
    [][\A u \in Users :
         (/\ u \in DOMAIN active_tests /\ InProgress(active_tests[u])
          /\ out'.op = "show_analysis" /\ out'.user = u)
            => /\ u \in DOMAIN active_tests'
               /\ active_tests'[u] = active_tests[u]]_vars

\* C21: the drawn questions (contents, order, length) and the start time of
\* a session are fixed when it is created: no step changes them for as long
\* as the session is in the registry.
C21_DrawAndStartFixed ==
    [][\A u \in Users :
         (/\ u \in DOMAIN active_tests /\ u \in DOMAIN active_tests'
          /\ active_tests'[u].sid = active_tests[u].sid)
            => /\ active_tests'[u].questions = active_tests[u].questions
               /\ active_tests'[u].start_time = active_tests[u].start_time
               /\ active_tests'[u].subject = active_tests[u].subject]_vars

\* C21, its case: a session whose start time is before the last reading of
\* the clock, registered beside another user's, has taken an Answer and has
\* been shown again.
C21_Witness ==
    \E u \in DOMAIN active_tests :
        /\ DOMAIN active_tests[u].answers # {}
        /\ out.op = "show_question" /\ out.user = u /\ out.kind = "question"
        /\ active_tests[u].start_time < now
        /\ DOMAIN active_tests # {u}

\* C22: an Answer on an existing session records the letter under exactly
\* the index it carries and sets the position to that index plus one,
\* whatever the position was; every other entry of the answer map stays as
\* it was, and the Result Store is written only if the new position has
\* reached the end of the draw.
C22_AnswerRecordsUnderGivenIndex ==
    [][\A u \in Users :
         (out'.op = "answer" /\ out'.user = u /\ u \in DOMAIN active_tests)
            => \A answer \in AnswerLetters, question_idx \in Indices :
                  handle_answer(u, answer, question_idx)
                     => /\ u \in DOMAIN active_tests'
                        /\ active_tests'[u].answers =
                              DictSet(active_tests[u].answers, question_idx, answer)
                        /\ active_tests'[u].current_question = question_idx + 1
                        /\ (question_idx + 1 < Len(active_tests[u].questions))
                              => /\ db_test_results' = db_test_results
                                 /\ db_test_answers' = db_test_answers]_vars

\* C22, its case: an Answer carrying an index before the position has
\* overwritten the answer given earlier for that index.
C22_Witness ==
    /\ out.op = "answer" /\ out.kind = "question"
    /\ out.user \in DOMAIN active_tests
    /\ active_tests[out.user].current_question = 1
    /\ 0 \in DOMAIN active_tests[out.user].answers
    /\ active_tests[out.user].answers[0] = "E"
    /\ \E i \in DOMAIN active_tests[out.user].answers : i < 0

\* C23: a result is computed or persisted for a user only if the user's
\* session is registered and its position is at least the number of drawn
\* questions.
C23_FinishOnlyAtEnd ==
    /\ [](out.kind = "result" =>
            /\ out.user \in DOMAIN active_tests
            /\ active_tests[out.user].current_question
                  >= Len(active_tests[out.user].questions)
            /\ out.data.total_questions = Len(active_tests[out.user].questions))
    /\ [][(db_test_results' # db_test_results \/ db_test_answers' # db_test_answers)
            => /\ out'.kind = "result"
               /\ out'.user \in DOMAIN active_tests
               /\ out'.user \in DOMAIN active_tests'
               /\ active_tests'[out'.user].current_question
                     >= Len(active_tests'[out'.user].questions)
               /\ db_test_results'[Len(db_test_results')].user_id = out'.user
               /\ db_test_results'[Len(db_test_results')].session
                     = active_tests'[out'.user].sid]_vars

\* C23, its case: a result persisted for a session whose position is the
\* number of its questions, the other user being in the middle of a test.
C23_Witness ==
    /\ out.kind = "result" /\ out.data.test_result_id # 0
    /\ active_tests[out.user].current_question
          = Len(active_tests[out.user].questions)
    /\ \E v \in DOMAIN active_tests :
          /\ v # out.user /\ InProgress(active_tests[v])
          /\ active_tests[v].current_question < Len(active_tests[v].questions)

\* C24: in the normal flow every Answer moves the position of the session
\* on by one; it is answered with the next question until the position
\* reaches the end of the draw, and the Answer that moves it there computes
\* the result and completes the session: a session of N questions is
\* completed by its N-th Answer; and the session does complete.
C24_NormalFlowEndsAfterN ==
    /\ [][(/\ 1 \in DOMAIN active_tests
           /\ InProgress(active_tests[1]))
            => LET N == Len(active_tests[1].questions)
                   position == active_tests'[1].current_question
               IN  /\ position = active_tests[1].current_question + 1
                   /\ out'.op = "answer"
                   /\ IF position < N
                      THEN /\ InProgress(active_tests'[1])
                           /\ out'.kind = "question"
                           /\ out'.data.index = position
                      ELSE /\ ~InProgress(active_tests'[1])
                           /\ out'.kind = "result"
                           /\ out'.data.total_questions = N
                           /\ Len(active_tests'[1].test_answers) = N]_vars
    /\ <>(1 \in DOMAIN active_tests /\ ~InProgress(active_tests[1]))

\* C25: once a session carries a transcript, no later step on that session
\* changes the transcript.
C25_TranscriptSetOnce ==
    [][\A u \in Users :
         (/\ u \in DOMAIN active_tests /\ ~InProgress(active_tests[u])
          /\ u \in DOMAIN active_tests'
          /\ active_tests'[u].sid = active_tests[u].sid)
            => /\ ~InProgress(active_tests'[u])
               /\ active_tests'[u].test_answers = active_tests[u].test_answers]_vars

\* The letters in upper case.
UpperLetters == {"A", "B", "C", "D", "E"}

\* C26: the transcript built by Finish has one record per drawn question,
\* in draw order; record i carries the text and options of question i, the
\* submitted answer for index i in upper case (empty if there is none) and
\* the correct letter of question i in upper case; the number of records
\* flagged correct is the reported correct count.
C26_TranscriptFollowsDraw ==
    out.kind = "result" =>
        LET test_session == active_tests[out.user]
            questions == test_session.questions
            answers == test_session.answers
            test_answers == test_session.test_answers
        IN  /\ Len(test_answers) = Len(questions)
            /\ \A i \in 1..Len(questions) :
                  /\ test_answers[i].question = questions[i].question_text
                  /\ test_answers[i].option_a = questions[i].option_a
                  /\ test_answers[i].option_d = questions[i].option_d
                  /\ test_answers[i].correct_answer \in UpperLetters
                  /\ SameLetter(test_answers[i].correct_answer,
                                questions[i].correct_answer)
                  /\ IF (i - 1) \in DOMAIN answers
                     THEN /\ test_answers[i].user_answer \in UpperLetters
                          /\ SameLetter(test_answers[i].user_answer, answers[i - 1])
                     ELSE test_answers[i].user_answer = ""
            /\ Cardinality({i \in 1..Len(test_answers) : test_answers[i].is_correct})
                  = out.data.correct_count

\* C26, its case: the transcript of three questions drawn in another order
\* than that of their ids, whose last answer was sent as "b" and whose
\* correct letters are stored in lower case.
C26_Witness ==
    /\ out.kind = "result"
    /\ Len(active_tests[out.user].test_answers) = 3
    /\ active_tests[out.user].questions[3].id # 3
    /\ 2 \in DOMAIN active_tests[out.user].answers
    /\ active_tests[out.user].answers[2] = "b"
    /\ active_tests[out.user].test_answers[3].user_answer = "B"
    /\ active_tests[out.user].questions[3].correct_answer = "b"
    /\ active_tests[out.user].test_answers[3].correct_answer = "B"

\* C27: a CancelTest received for a session that has completed does not
\* discard it: the session and its transcript stay in the registry.
C27_CancelKeepsCompleted ==
    [][\A u \in Users :
         (/\ u \in DOMAIN active_tests /\ ~InProgress(active_tests[u])
          /\ out'.op = "cancel_test" /\ out'.user = u)
            => /\ u \in DOMAIN active_tests'
               /\ active_tests'[u] = active_tests[u]]_vars

\* The rows of the store that a draw for subject and language may return.
Matching(subject, language) ==
    {i \in DOMAIN db_questions :
        /\ db_questions[i].subject = subject
        /\ db_questions[i].language = language}

\* The questions of a draw are rows of the store, of the subject and the
\* language asked for, none of them twice.
DrawnFromStore(d) ==
    /\ \A i \in DOMAIN d.questions :
          /\ d.questions[i].id \in Matching(d.subject, d.language)
          /\ d.questions[i] = db_questions[d.questions[i].id]
    /\ \A i \in DOMAIN d.questions, j \in DOMAIN d.questions :
          d.questions[i].id = d.questions[j].id => i = j
    /\ Len(d.questions) <= d.count

\* C28: a draw returns only questions of the subject and the language, none
\* repeated, and fewer than count only if the store holds fewer than count
\* matching questions.
C28_DrawFullUnlessStoreShort ==
    (out.op = "get_random_questions" /\ out.kind = "drawn") =>
        /\ DrawnFromStore(out.data)
        /\ Len(out.data.questions) < out.data.count =>
              Cardinality(Matching(out.data.subject, out.data.language))
                  < out.data.count

\* C29: a session keeps the questions it drew.  A step that changes the
\* store changes neither the registry nor the Result Store; and whatever
\* the store holds by then, the question shown is the one of the session's
\* own list at its position, and the score and the transcript of a Finish
\* are those of the session's own list, which is as it was drawn.
C29_SessionKeepsItsDraw ==
    /\ [][db_questions' # db_questions =>
            /\ active_tests' = active_tests
            /\ db_test_results' = db_test_results
            /\ db_test_answers' = db_test_answers]_vars
    /\ [][\A u \in Users :
            (/\ u \in DOMAIN active_tests /\ u \in DOMAIN active_tests'
             /\ active_tests'[u].sid = active_tests[u].sid)
               => active_tests'[u].questions = active_tests[u].questions]_vars
    /\ [](out.kind = "question" =>
            LET test_session == active_tests[out.user]
            IN  /\ out.data.total_questions = Len(test_session.questions)
                /\ out.data.question =
                      PyIndex(test_session.questions,
                              test_session.current_question).question_text)
    /\ [](out.kind = "result" =>
            LET test_session == active_tests[out.user]
            IN  /\ out.data.total_questions = Len(test_session.questions)
                /\ Len(test_session.test_answers) = Len(test_session.questions)
                /\ \A i \in 1..Len(test_session.questions) :
                      /\ test_session.test_answers[i].question
                            = test_session.questions[i].question_text
                      /\ SameLetter(test_session.test_answers[i].correct_answer,
                                    test_session.questions[i].correct_answer)
                /\ out.data.correct_count =
                      Cardinality({i \in 1..Len(test_session.questions) :
                          /\ (i - 1) \in DOMAIN test_session.answers
                          /\ SameLetter(test_session.answers[i - 1],
                                        test_session.questions[i].correct_answer)}))

\* C29, its case: a result computed on a draw of two questions when the
\* store has come to hold three questions of the subject and language.
C29_Witness ==
    /\ out.kind = "result" /\ out.data.test_result_id # 0
    /\ Len(active_tests[out.user].questions) = 2
    /\ Cardinality(Matching("mathematics", "uz")) = 3
    /\ out.data.total_questions = 2

\* C30: the list of a user's results holds at most limit results, all of
\* that user, and its first result is the one the user completed last.
C30_ListRecentNewestFirst ==
    (out.op = "get_user_results" /\ out.kind = "list" /\ out.data.ok) =>
        LET results == out.data.results
            mine == {i \in DOMAIN db_test_results :
                        db_test_results[i].user_id = out.user}
        IN  /\ Len(results) <= out.data.limit
            /\ \A k \in DOMAIN results : results[k].user_id = out.user
            /\ (out.data.limit > 0 /\ mine # {})
                  => /\ Len(results) > 0
                     /\ \A i \in mine : results[1].id >= db_test_results[i].id

\* C31: only configured values are in use: every stored language is one of
\* the supported languages and every registered session's subject is one of
\* the configured subjects.
C31_OnlyConfiguredValues ==
    /\ \A u \in DOMAIN db_users : db_users[u].language \in SUPPORTED_LANGUAGES
    /\ \A u \in DOMAIN active_tests : active_tests[u].subject \in SUBJECTS

\* C32: /start shows the language selection to a user who has never
\* selected a language, and the main menu in the selected language to a
\* user who has.
C32_StartAsksUnlessSelected ==
    out.op = "start" =>
        IF out.user \in DOMAIN selections
        THEN out.kind = "main_menu" /\ out.data = selections[out.user]
        ELSE out.kind = "language_selection"

\* C33: an update of user u (a subject chosen, an Answer and the Finish it
\* may bring, the analysis asked for, a test cancelled) leaves the registry
\* entry of every other user as it was, and every result it appends to the
\* Result Store carries the identity of u.
C33_OtherUsersUntouched ==
    [][out'.op \in {"subject", "answer", "cancel_test", "show_analysis"} =>
         /\ \A v \in Users \ {out'.user} :
               /\ (v \in DOMAIN active_tests') = (v \in DOMAIN active_tests)
               /\ v \in DOMAIN active_tests
                     => active_tests'[v] = active_tests[v]
         /\ Len(db_test_results') >= Len(db_test_results)
         /\ \A i \in DOMAIN db_test_results' :
               IF i \in DOMAIN db_test_results
               THEN db_test_results'[i] = db_test_results[i]
               ELSE db_test_results'[i].user_id = out'.user]_vars

\* C33, its case: user 1 has finished a test, its result saved, while user 2
\* has a session in progress.
C33_Witness ==
    /\ out.op = "answer" /\ out.kind = "result" /\ out.user = 1
    /\ out.data.test_result_id # 0
    /\ db_test_results[out.data.test_result_id].user_id = 1
    /\ 2 \in DOMAIN active_tests /\ InProgress(active_tests[2])

\* C34: the append to the Result Store is all or nothing.  Every persisted
\* result has one persisted transcript row per question of its test, and
\* no transcript row is without its result; a save that fails at any of its
\* statements leaves both tables as they were and returns 0, and so does
\* one whose connection cannot be opened, which raises; a save that
\* succeeds appends one result.  The save that either succeeds or fails as
\* a whole, which the runs of the bot use, gives the same tables and id.
C34_SaveAllOrNothing ==
    /\ [](/\ \A i \in DOMAIN db_test_results :
                Len(ChildRows(i)) = db_test_results[i].total_questions
          /\ \A k \in DOMAIN db_test_answers :
                db_test_answers[k].test_result_id \in DOMAIN db_test_results)
    /\ [](out.kind = "saved" => out.data.same)
    /\ [][DatabaseDown(out') =>
            /\ db_test_results' = db_test_results
            /\ db_test_answers' = db_test_answers]_vars
    /\ [][out'.kind = "saved" =>
            IF out'.data.done < out'.data.total_questions + 2
            THEN /\ out'.data.id = 0
                 /\ db_test_results' = db_test_results
                 /\ db_test_answers' = db_test_answers
            ELSE /\ out'.data.id = Len(db_test_results) + 1
                 /\ Len(db_test_results') = Len(db_test_results) + 1
                 /\ SubSeq(db_test_results', 1, Len(db_test_results))
                       = db_test_results]_vars

\* C34, its case: a save of two transcript rows has failed at its last
\* INSERT, the Result Store holds an earlier result and nothing of the
\* failed save.
C34_Witness ==
    /\ out.kind = "saved" /\ out.data.id = 0
    /\ out.data.total_questions = 2 /\ out.data.done = 2
    /\ Len(db_test_results) = 1
    /\ Len(db_test_answers) = db_test_results[1].total_questions

\* C35: in every registered session the position is between 0 and the
\* number N of drawn questions, and every key of the answer map is an index
\* in 0..N-1, whatever index the Answers carried.
C35_PositionAndKeysInRange ==
    \A u \in DOMAIN active_tests :
        LET test_session == active_tests[u]
            N == Len(test_session.questions)
        IN  /\ 0 <= test_session.current_question
            /\ test_session.current_question <= N
            /\ DOMAIN test_session.answers \subseteq 0..(N - 1)

\* C36: an Answer delivered to a session whose last Answer carried the same
\* letter and the same index (the letter is recorded under the index and
\* the position is the index plus one) changes neither the answer map nor
\* the position nor the Result Store.
C36_DoubleTapHarmless ==
    [][\A u \in Users :
         (out'.op = "answer" /\ out'.user = u /\ u \in DOMAIN active_tests)
            => \A answer \in AnswerLetters, question_idx \in Indices :
                  (/\ question_idx \in DOMAIN active_tests[u].answers
                   /\ active_tests[u].answers[question_idx] = answer
                   /\ active_tests[u].current_question = question_idx + 1
                   /\ handle_answer(u, answer, question_idx))
                     => /\ u \in DOMAIN active_tests'
                        /\ active_tests'[u].answers = active_tests[u].answers
                        /\ active_tests'[u].current_question
                              = active_tests[u].current_question
                        /\ db_test_results' = db_test_results
                        /\ db_test_answers' = db_test_answers]_vars

\* C37: once add_admin(u) has returned True (u is in admin_users: only
\* add_admin writes that table, and nothing removes a row of it), the
\* capability check is_admin(u) answers True, with or without a row of u in
\* the users table.
C37_GrantedIsAdmin ==
    (out.op = "is_admin" /\ out.user \in db_admin_users) => out.data = TRUE

===========================================================================
